---- MODULE Spec2Model ----
(***************************************************************************)
(* A model of the bitmap decoder bmp_rs (src/src/lib.rs, `decode`): the    *)
(* file header, the version-dispatched bitmap header, the palette, the     *)
(* raster row decoders and the RLE8 / RLE4 loops, driving a Builder sink.  *)
(*                                                                         *)
(* 32-bit words are held as integers below 2^31.  The RLE cursor y, which  *)
(* the code moves with `( ( y as i32 ) + row_mod ) as u32`, is held as its *)
(* two's-complement signed reading: the u32 value 0xFFFFFFFF is -1.        *)
(***************************************************************************)
EXTENDS Integers, Sequences, FiniteSets, TLC

VARIABLES
    in,        \* the byte source, as the fields and bytes it holds
    checked,   \* TRUE: the build panics on arithmetic overflow (debug profile)
    pc,        \* position inside decode
    pos,       \* bytes consumed from the byte source
    hdr,       \* the Header under construction / constructed
    cur,       \* RLE state (buffer, count, x, y, index) or raster loop counter
    sink,      \* the calls made on the Builder, in order
    result,    \* what decode returned ("none" while running)
    fault,     \* the out-of-range access that made the process panic, if any
    reads      \* read_exact / read_u32 calls made on the byte source

vars == <<in, checked, pc, pos, hdr, cur, sink, result, fault, reads>>

----------------------------------------------------------------------------
(* Bounds of the model *)

MaxDim == 2        \* largest magnitude of a width / height field
MaxOps == 2        \* largest number of RLE tokens in a compressed stream

----------------------------------------------------------------------------
(* Program constants *)

MSVERSION2_SIZE == 12
MSVERSION3_SIZE == 40
MSVERSION4_SIZE == 108
MSVERSION5_SIZE == 124

FileHeaderSize == 14

----------------------------------------------------------------------------
(* Bit arithmetic on naturals *)

RECURSIVE BitAnd(_, _)
BitAnd(a, b) ==
    IF a = 0 \/ b = 0 THEN 0
    ELSE (IF a % 2 = 1 /\ b % 2 = 1 THEN 1 ELSE 0) + 2 * BitAnd(a \div 2, b \div 2)

RECURSIVE Pow2(_)
Pow2(n) == IF n = 0 THEN 1 ELSE 2 * Pow2(n - 1)

Shr(a, n) == a \div Pow2(n)

RECURSIVE trailing_zeros(_)
trailing_zeros(m) ==
    IF m = 0 THEN 32
    ELSE IF m % 2 = 1 THEN 0 ELSE 1 + trailing_zeros(m \div 2)

Abs(v) == IF v < 0 THEN -v ELSE v

Signum(v) == IF v > 0 THEN 1 ELSE IF v < 0 THEN -1 ELSE 0

I32Min == -2147483647 - 1

----------------------------------------------------------------------------
(* u32 values of the bitfield decoders, held as two 16-bit halves so that  *)
(* every mask up to 2^32 - 1 and the product 255 * value can be computed.  *)

U32(hi, lo) == [hi |-> hi, lo |-> lo]

Zero32 == U32(0, 0)

\* a & b
And32(a, b) == U32(BitAnd(a.hi, b.hi), BitAnd(a.lo, b.lo))

\* u32::trailing_zeros: 32 for the value 0
trailing_zeros32(m) ==
    IF m.lo # 0 THEN trailing_zeros(m.lo)
    ELSE IF m.hi # 0 THEN 16 + trailing_zeros(m.hi)
    ELSE 32

\* a >> n for 0 <= n < 32
Shr32(a, n) ==
    IF n >= 16 THEN U32(0, Shr(a.hi, n - 16))
    ELSE U32(Shr(a.hi, n), (a.hi % Pow2(n)) * Pow2(16 - n) + Shr(a.lo, n))

\* 255 * a in u32: the product modulo 2^32, and whether it left the u32 range
Mul255(a) ==
    LET low == 255 * a.lo
        high == 255 * a.hi + low \div 65536
    IN  [val |-> U32(high % 65536, low % 65536), over |-> high >= 65536]

\* q * d <= n for a small factor q; the product itself may need more than 32 bits
TimesLeq(q, d, n) ==
    LET low == q * d.lo
        high == q * d.hi + low \div 65536
    IN  high < n.hi \/ (high = n.hi /\ low % 65536 <= n.lo)

\* n / d for d # 0 and a quotient below 256, which ( color & mask ) >> shift <= max gives
Div32(n, d) == CHOOSE q \in 0..255 : TimesLeq(q, d, n) /\ ~TimesLeq(q + 1, d, n)

----------------------------------------------------------------------------
(* Values *)

NoFault == [kind |-> "none", idx |-> 0, len |-> 0]

Running == [tag |-> "none", msg |-> ""]
Ok == [tag |-> "Ok", msg |-> ""]
BuildErr == [tag |-> "Err", msg |-> "builder"]
Err(m) == [tag |-> "Err", msg |-> m]
Panic(m) == [tag |-> "Panic", msg |-> m]

NoMask == [red |-> Zero32, green |-> Zero32, blue |-> Zero32, alpha |-> Zero32]

NoHeader ==
    [version |-> 0, width |-> 0, height |-> 0, bpp |-> 0, planes |-> 0,
     bottom_up |-> FALSE, hasInfo |-> FALSE, compression |-> "None",
     image_size |-> 0, used_colors |-> 0, hasBitmask |-> FALSE,
     bitmask |-> NoMask, hasPalette |-> FALSE, palette |-> <<>>]

NoCursor ==
    [size |-> 0, row |-> 0, count |-> 0, buffer |-> <<>>,
     x |-> 0, y |-> 0, index |-> 0, dpos |-> 0, eob |-> FALSE]

Color(r, g, b, a) == [r |-> r, g |-> g, b |-> b, a |-> a]
NoColor == Color(0, 0, 0, 0)

\* a call on the Builder; ret: what build returned
SetSizeCall(w, h) == [op |-> "set_size", x |-> w, y |-> h, c |-> NoColor, ret |-> ""]
SetPixelCall(x, y, c) == [op |-> "set_pixel", x |-> x, y |-> y, c |-> c, ret |-> ""]
BuildCall(r) == [op |-> "build", x |-> 0, y |-> 0, c |-> NoColor, ret |-> r.tag]

----------------------------------------------------------------------------
(* The byte source.  A read of n bytes succeeds when the source still holds *)
(* n bytes; in.cut = -1 is a source that is not truncated inside the        *)
(* headers, in.rest are the bytes that follow the headers and the palette.  *)

CanRead(n) == in.cut = -1 \/ pos + n <= in.cut

CanReadData(n) == CanRead(n) /\ cur.dpos + n <= Len(in.rest)

DataBytes(n) == SubSeq(in.rest, cur.dpos + 1, cur.dpos + n)

\* byte j (from 0) of the palette block of the source, entries of colorSize bytes
PaletteByte(j, colorSize) ==
    IF j % colorSize = 3 THEN in.palRes
    ELSE ((j \div colorSize) * 16 + (j % colorSize)) % 256

PaletteBlock(n, colorSize) == [j \in 1..(n * colorSize) |-> PaletteByte(j - 1, colorSize)]

----------------------------------------------------------------------------
(* Ends of decode *)

\* `?` on a failed read: the error is returned, nothing is read again
ReadFails(before) ==
    /\ reads' = [calls |-> reads.calls + before + 1, failed |-> reads.failed + 1]
    /\ result' = Err("failed to fill whole buffer")
    /\ pc' = "done"

Returns(r) ==
    /\ result' = r
    /\ pc' = "done"

ReadsDone(n) == reads' = [reads EXCEPT !.calls = @ + n]

----------------------------------------------------------------------------
(* Header parsing *)

BadMagic(h0, h1) == h0 # 66 /\ h1 # 77

\* 0 stands for the Err of Version::from_isize
Version_from_isize(size) ==
    IF size = MSVERSION2_SIZE THEN MSVERSION2_SIZE
    ELSE IF size = MSVERSION3_SIZE THEN MSVERSION3_SIZE
    ELSE IF size = MSVERSION4_SIZE THEN MSVERSION4_SIZE
    ELSE 0

\* Compression_of with the RLE8 arm taken at every bit depth
Compression_of_Rle8AnyBpp(code, bpp) ==
    IF code = 0 THEN "None"
    ELSE IF code = 1 THEN "RLE8Bit"
    ELSE IF code = 2 /\ bpp = 4 THEN "RLE4Bit"
    ELSE IF code = 3 /\ (bpp = 16 \/ bpp = 32) THEN "Bitfield"
    ELSE "Invalid"

\* "None" stands for Option::None, "Invalid" for the Err of Info::from_buffer
Compression_of(code, bpp) ==
    IF code = 0 THEN "None"
    ELSE IF code = 1 /\ bpp = 8 THEN "RLE8Bit"
    ELSE IF code = 2 /\ bpp = 4 THEN "RLE4Bit"
    ELSE IF code = 3 /\ (bpp = 16 \/ bpp = 32) THEN "Bitfield"
    ELSE "Invalid"

BppValid(version, bpp) ==
    /\ bpp \in {1, 4, 8, 16, 24, 32}
    /\ ~(version = MSVERSION2_SIZE /\ (bpp = 16 \/ bpp = 32))

\* 1 << core.bpp on a u32: a shift by 32 panics in a checked build and
\* shifts by 32 mod 32 = 0 otherwise; -1 stands for the panic
Shl1(bpp) ==
    IF bpp < 32 THEN Pow2(bpp)
    ELSE IF checked THEN -1 ELSE 1

palette_size(h) ==
    IF h.hasInfo /\ h.used_colors = 0 /\ h.bpp < 16 THEN Shl1(h.bpp)
    ELSE IF h.hasInfo THEN h.used_colors
    ELSE Shl1(h.bpp)

has_alpha(version) == version = MSVERSION4_SIZE

Palette_from_buffer(buf, color_size, alpha) ==
    [i \in 1..((Len(buf) + color_size - 1) \div color_size) |->
        LET o == (i - 1) * color_size
        IN  Color(buf[o + 3], buf[o + 2], buf[o + 1],
                  IF alpha THEN buf[o + 4] ELSE 255)]

ReadFileHeader ==
    /\ pc = "start"
    /\ IF ~CanRead(FileHeaderSize)
       THEN /\ ReadFails(0)
            /\ UNCHANGED pos
       ELSE /\ ReadsDone(1)
            /\ pos' = pos + FileHeaderSize
            /\ IF BadMagic(in.magic0, in.magic1)
               THEN Returns(Err("Invalid bitmap file."))
               ELSE /\ pc' = "version"
                    /\ UNCHANGED result
    /\ UNCHANGED <<in, checked, hdr, cur, sink, fault>>

ReadVersion ==
    /\ pc = "version"
    /\ IF ~CanRead(4)
       THEN /\ ReadFails(0)
            /\ UNCHANGED <<pos, hdr>>
       ELSE IF Version_from_isize(in.hsize) = 0
       THEN /\ ReadsDone(1)
            /\ pos' = pos + 4
            /\ Returns(Err("Invalid bitmap header"))
            /\ UNCHANGED hdr
       ELSE IF ~CanRead(Version_from_isize(in.hsize))
       THEN /\ ReadFails(1)
            /\ pos' = pos + 4
            /\ UNCHANGED hdr
       ELSE /\ ReadsDone(2)
            /\ pos' = pos + Version_from_isize(in.hsize)
            /\ hdr' = [hdr EXCEPT !.version = Version_from_isize(in.hsize)]
            /\ pc' = "core"
            /\ UNCHANGED result
    /\ UNCHANGED <<in, checked, cur, sink, fault>>

\* ParseCore with the size announced as soon as the dimensions are read
ParseCore_SizeFirst ==
    /\ pc = "core"
    /\ IF in.wfield = I32Min
       THEN Returns(Err("Invalid width.")) /\ UNCHANGED <<hdr, sink>>
       ELSE IF in.hfield = I32Min
       THEN Returns(Err("Invalid height.")) /\ UNCHANGED <<hdr, sink>>
       ELSE /\ sink' = Append(sink, SetSizeCall(Abs(in.wfield), Abs(in.hfield)))
            /\ IF in.planes # 1
               THEN Returns(Err("Invalid number of color planes")) /\ UNCHANGED hdr
               ELSE IF ~BppValid(hdr.version, in.bpp)
               THEN Returns(Err("Invalid bits per pixel")) /\ UNCHANGED hdr
               ELSE /\ hdr' = [hdr EXCEPT !.width = Abs(in.wfield),
                                          !.height = Abs(in.hfield),
                                          !.bottom_up = (Signum(in.hfield) = 1),
                                          !.planes = in.planes,
                                          !.bpp = in.bpp]
                    /\ pc' = "info"
                    /\ UNCHANGED result
    /\ UNCHANGED <<in, checked, pos, cur, fault, reads>>

\* ParseCore taking checked_abs on the i16 fields of a Core2 header before widening them
ParseCore_AbsOnI16 ==
    /\ pc = "core"
    /\ IF in.wfield = I32Min \/ (hdr.version = MSVERSION2_SIZE /\ in.wfield = -32768)
       THEN Returns(Err("Invalid width.")) /\ UNCHANGED hdr
       ELSE IF in.hfield = I32Min \/ (hdr.version = MSVERSION2_SIZE /\ in.hfield = -32768)
       THEN Returns(Err("Invalid height.")) /\ UNCHANGED hdr
       ELSE IF in.planes # 1
       THEN Returns(Err("Invalid number of color planes")) /\ UNCHANGED hdr
       ELSE IF ~BppValid(hdr.version, in.bpp)
       THEN Returns(Err("Invalid bits per pixel")) /\ UNCHANGED hdr
       ELSE /\ hdr' = [hdr EXCEPT !.width = Abs(in.wfield),
                                  !.height = Abs(in.hfield),
                                  !.bottom_up = (Signum(in.hfield) = 1),
                                  !.planes = in.planes,
                                  !.bpp = in.bpp]
            /\ pc' = "info"
            /\ UNCHANGED result
    /\ UNCHANGED <<in, checked, pos, cur, sink, fault, reads>>

ParseCore ==
    /\ pc = "core"
    /\ IF in.wfield = I32Min
       THEN Returns(Err("Invalid width.")) /\ UNCHANGED hdr
       ELSE IF in.hfield = I32Min
       THEN Returns(Err("Invalid height.")) /\ UNCHANGED hdr
       ELSE IF in.planes # 1
       THEN Returns(Err("Invalid number of color planes")) /\ UNCHANGED hdr
       ELSE IF ~BppValid(hdr.version, in.bpp)
       THEN Returns(Err("Invalid bits per pixel")) /\ UNCHANGED hdr
       ELSE /\ hdr' = [hdr EXCEPT !.width = Abs(in.wfield),
                                  !.height = Abs(in.hfield),
                                  !.bottom_up = (Signum(in.hfield) = 1),
                                  !.planes = in.planes,
                                  !.bpp = in.bpp]
            /\ pc' = "info"
            /\ UNCHANGED result
    /\ UNCHANGED <<in, checked, pos, cur, sink, fault, reads>>

ParseInfo ==
    /\ pc = "info"
    /\ IF hdr.version # MSVERSION3_SIZE
       THEN /\ pc' = "bitmask"
            /\ UNCHANGED <<hdr, result>>
       ELSE IF Compression_of(in.comp, hdr.bpp) = "Invalid"
       THEN Returns(Err("Invalid compression")) /\ UNCHANGED hdr
       ELSE /\ hdr' = [hdr EXCEPT !.hasInfo = TRUE,
                                  !.compression = Compression_of(in.comp, hdr.bpp),
                                  !.image_size = in.imageSize,
                                  !.used_colors = in.usedColors]
            /\ pc' = "bitmask"
            /\ UNCHANGED result
    /\ UNCHANGED <<in, checked, pos, cur, sink, fault, reads>>

ReadBitmask ==
    /\ pc = "bitmask"
    /\ IF hdr.hasInfo /\ hdr.compression = "Bitfield"
       THEN IF ~CanRead(12)
            THEN ReadFails(0) /\ UNCHANGED <<pos, hdr>>
            ELSE /\ ReadsDone(1)
                 /\ pos' = pos + 12
                 /\ hdr' = [hdr EXCEPT !.hasBitmask = TRUE,
                                       !.bitmask = [red |-> in.maskR, green |-> in.maskG,
                                                    blue |-> in.maskB,
                                                    alpha |-> IF has_alpha(hdr.version)
                                                              THEN in.maskA ELSE Zero32]]
                 /\ pc' = "palette"
                 /\ UNCHANGED result
       ELSE /\ hdr' = IF hdr.hasInfo /\ hdr.bpp = 16
                      THEN [hdr EXCEPT !.hasBitmask = TRUE,
                                       !.bitmask = [red |-> U32(0, 31744), green |-> U32(0, 992),
                                                    blue |-> U32(0, 31), alpha |-> Zero32]]
                      ELSE IF hdr.hasInfo /\ hdr.bpp = 32
                      THEN [hdr EXCEPT !.hasBitmask = TRUE,
                                       !.bitmask = [red |-> U32(255, 0), green |-> U32(0, 65280),
                                                    blue |-> U32(0, 255), alpha |-> Zero32]]
                      ELSE hdr
            /\ pc' = "palette"
            /\ UNCHANGED <<pos, result, reads>>
    /\ UNCHANGED <<in, checked, cur, sink, fault>>

\* ReadPalette reading four bytes for every palette entry, those of a Core2 header too
ReadPalette_FourBytes ==
    /\ pc = "palette"
    /\ LET n == palette_size(hdr)
           color_size == 4
       IN  IF n = -1
           THEN /\ Returns(Panic("attempt to shift left with overflow"))
                /\ UNCHANGED <<pos, hdr, reads>>
           ELSE IF n = 0
           THEN /\ pc' = "set_size"
                /\ UNCHANGED <<pos, hdr, reads, result>>
           ELSE IF hdr.bpp \notin {1, 4, 8}
           THEN /\ Returns(Err("Unexpected color palette"))
                /\ UNCHANGED <<pos, hdr, reads>>
           ELSE IF ~CanRead(n * color_size)
           THEN ReadFails(0) /\ UNCHANGED <<pos, hdr>>
           ELSE /\ ReadsDone(1)
                /\ pos' = pos + n * color_size
                /\ hdr' = [hdr EXCEPT !.hasPalette = TRUE,
                                      !.palette = Palette_from_buffer(
                                          PaletteBlock(n, color_size), color_size,
                                          has_alpha(hdr.version))]
                /\ pc' = "set_size"
                /\ UNCHANGED result
    /\ UNCHANGED <<in, checked, cur, sink, fault>>

ReadPalette ==
    /\ pc = "palette"
    /\ LET n == palette_size(hdr)
           color_size == IF hdr.version = MSVERSION2_SIZE THEN 3 ELSE 4
       IN  IF n = -1
           THEN /\ Returns(Panic("attempt to shift left with overflow"))
                /\ UNCHANGED <<pos, hdr, reads>>
           ELSE IF n = 0
           THEN /\ pc' = "set_size"
                /\ UNCHANGED <<pos, hdr, reads, result>>
           ELSE IF hdr.bpp \notin {1, 4, 8}
           THEN /\ Returns(Err("Unexpected color palette"))
                /\ UNCHANGED <<pos, hdr, reads>>
           ELSE IF ~CanRead(n * color_size)
           THEN ReadFails(0) /\ UNCHANGED <<pos, hdr>>
           ELSE /\ ReadsDone(1)
                /\ pos' = pos + n * color_size
                /\ hdr' = [hdr EXCEPT !.hasPalette = TRUE,
                                      !.palette = Palette_from_buffer(
                                          PaletteBlock(n, color_size), color_size,
                                          has_alpha(hdr.version))]
                /\ pc' = "set_size"
                /\ UNCHANGED result
    /\ UNCHANGED <<in, checked, cur, sink, fault>>

----------------------------------------------------------------------------
(* Row decoders.  Each yields the set_pixel calls it made, in order, and   *)
(* the access that made it panic, if one did.                              *)

Row(pix, f) == [pix |-> pix, fault |-> f]

PaletteFault(i, palette) == [kind |-> "palette", idx |-> i, len |-> Len(palette)]
BufferFault(i, n) == [kind |-> "buffer", idx |-> i, len |-> n]
ChunkFault(i, n) == [kind |-> "chunk", idx |-> i, len |-> n]
ArithFault(k) == [kind |-> k, idx |-> 0, len |-> 0]

RECURSIVE decode_1bpp_from(_, _, _, _, _, _, _, _)
decode_1bpp_from(width, row, buf, palette, i, bit, x, pix) ==
    IF i > Len(buf) THEN Row(pix, NoFault)
    ELSE LET idx == Shr(buf[i], bit) % 2
         IN  IF idx >= Len(palette) THEN Row(pix, PaletteFault(idx, palette))
             ELSE LET pix2 == Append(pix, SetPixelCall(x, row, palette[idx + 1]))
                  IN  IF x + 1 >= width THEN Row(pix2, NoFault)
                      ELSE IF bit = 0
                      THEN decode_1bpp_from(width, row, buf, palette, i + 1, 7, x + 1, pix2)
                      ELSE decode_1bpp_from(width, row, buf, palette, i, bit - 1, x + 1, pix2)

decode_1bpp(width, row, buf, palette) ==
    decode_1bpp_from(width, row, buf, palette, 1, 7, 0, <<>>)

\* half = 0: the high nibble of byte i, half = 1: its low nibble
RECURSIVE decode_4bpp_from(_, _, _, _, _, _, _, _)
decode_4bpp_from(width, row, buf, palette, i, half, x, pix) ==
    IF i > Len(buf) THEN Row(pix, NoFault)
    ELSE LET idx == IF half = 0 THEN Shr(buf[i], 4) % 16 ELSE buf[i] % 16
         IN  IF idx >= Len(palette) THEN Row(pix, PaletteFault(idx, palette))
             ELSE LET pix2 == Append(pix, SetPixelCall(x, row, palette[idx + 1]))
                  IN  IF x + 1 >= width THEN Row(pix2, NoFault)
                      ELSE IF half = 0
                      THEN decode_4bpp_from(width, row, buf, palette, i, 1, x + 1, pix2)
                      ELSE decode_4bpp_from(width, row, buf, palette, i + 1, 0, x + 1, pix2)

\* decode_4bpp taking the low nibble of the first byte for column 0
decode_4bpp_LowNibbleFirst(width, row, buf, palette) ==
    decode_4bpp_from(width, row, buf, palette, 1, 1, 0, <<>>)

decode_4bpp(width, row, buf, palette) ==
    decode_4bpp_from(width, row, buf, palette, 1, 0, 0, <<>>)

RECURSIVE decode_8bpp_from(_, _, _, _, _, _, _)
decode_8bpp_from(width, row, buf, palette, i, x, pix) ==
    IF i > Len(buf) THEN Row(pix, NoFault)
    ELSE IF buf[i] >= Len(palette) THEN Row(pix, PaletteFault(buf[i], palette))
    ELSE LET pix2 == Append(pix, SetPixelCall(x, row, palette[buf[i] + 1]))
         IN  IF x + 1 >= width THEN Row(pix2, NoFault)
             ELSE decode_8bpp_from(width, row, buf, palette, i + 1, x + 1, pix2)

decode_8bpp(width, row, buf, palette) ==
    decode_8bpp_from(width, row, buf, palette, 1, 0, <<>>)

\* o: offset of the chunk of 3 bytes
RECURSIVE decode_24bpp_from(_, _, _, _, _, _)
decode_24bpp_from(width, row, buf, o, x, pix) ==
    IF o >= Len(buf) THEN Row(pix, NoFault)
    ELSE IF o + 3 > Len(buf) THEN Row(pix, ChunkFault(2, Len(buf) - o))
    ELSE LET pix2 == Append(pix, SetPixelCall(x, row,
                                   Color(buf[o + 3], buf[o + 2], buf[o + 1], 255)))
         IN  IF x + 1 >= width THEN Row(pix2, NoFault)
             ELSE decode_24bpp_from(width, row, buf, o + 3, x + 1, pix2)

decode_24bpp(width, row, buf) == decode_24bpp_from(width, row, buf, 0, 0, <<>>)

\* a >> n on a u32 in a build without overflow checks: the count is taken mod 32
ShrW(a, n) == Shr32(a, n % 32)

\* color & mask
AndMask(color, mask) == And32(color, mask)

\* ( ( 255 * ( ( color & mask ) >> shift ) ) / max ) as u8, and whether the
\* product overflowed
Scaled(color, mask, shift, max) ==
    LET p == Mul255(ShrW(AndMask(color, mask), shift))
    IN  [val |-> Div32(p.val, max) % 256, over |-> p.over]

\* n: bytes per pixel (2 or 4); sh, mx: the shift and the maximum of each channel
RECURSIVE bitfield_pixels(_, _, _, _, _, _, _, _, _, _)
bitfield_pixels(width, row, buf, mask, sh, mx, n, o, x, pix) ==
    IF o >= Len(buf) THEN Row(pix, NoFault)
    ELSE IF o + n > Len(buf) THEN Row(pix, ChunkFault(n - 1, Len(buf) - o))
    ELSE LET color == U32(IF n = 4 THEN buf[o + 3] + 256 * buf[o + 4] ELSE 0,
                          buf[o + 1] + 256 * buf[o + 2])
             over(m, s) == Mul255(ShrW(AndMask(color, m), s)).over
         IN  IF checked /\ mx.alpha # Zero32 /\ over(mask.alpha, sh.alpha)
             THEN Row(pix, ArithFault("overflow"))
             ELSE IF checked /\ over(mask.red, sh.red)
             THEN Row(pix, ArithFault("overflow"))
             ELSE IF mx.red = Zero32 THEN Row(pix, ArithFault("div0"))
             ELSE IF checked /\ over(mask.green, sh.green)
             THEN Row(pix, ArithFault("overflow"))
             ELSE IF mx.green = Zero32 THEN Row(pix, ArithFault("div0"))
             ELSE IF checked /\ over(mask.blue, sh.blue)
             THEN Row(pix, ArithFault("overflow"))
             ELSE IF mx.blue = Zero32 THEN Row(pix, ArithFault("div0"))
             ELSE LET alpha == IF mx.alpha = Zero32 THEN 255
                               ELSE Scaled(color, mask.alpha, sh.alpha, mx.alpha).val
                      pix2 == Append(pix, SetPixelCall(x, row,
                                  Color(Scaled(color, mask.red, sh.red, mx.red).val,
                                        Scaled(color, mask.green, sh.green, mx.green).val,
                                        Scaled(color, mask.blue, sh.blue, mx.blue).val,
                                        alpha)))
                  IN  IF x + 1 >= width THEN Row(pix2, NoFault)
                      ELSE bitfield_pixels(width, row, buf, mask, sh, mx, n, o + n, x + 1, pix2)

\* the shifts and maxima computed before the loop; alpha_shift is given by the caller
bitfield_row(width, row, buf, mask, alpha_shift, n) ==
    LET sh == [red |-> trailing_zeros32(mask.red), green |-> trailing_zeros32(mask.green),
               blue |-> trailing_zeros32(mask.blue), alpha |-> alpha_shift]
        mx == [red |-> ShrW(mask.red, sh.red), green |-> ShrW(mask.green, sh.green),
               blue |-> ShrW(mask.blue, sh.blue),
               alpha |-> IF mask.alpha = Zero32 THEN Zero32
                         ELSE ShrW(mask.alpha, sh.alpha)]
    IN  IF checked /\ ( \/ (mask.alpha # Zero32 /\ sh.alpha >= 32)
                        \/ sh.red >= 32 \/ sh.green >= 32 \/ sh.blue >= 32 )
        THEN Row(<<>>, ArithFault("shift"))
        ELSE bitfield_pixels(width, row, buf, mask, sh, mx, n, 0, 0, <<>>)

decode_16bpp(width, row, buf, mask) ==
    bitfield_row(width, row, buf, mask, trailing_zeros32(mask.red), 2)

decode_32bpp(width, row, buf, mask) ==
    bitfield_row(width, row, buf, mask, trailing_zeros32(mask.alpha), 4)

decode_row(bpp, compression, width, row, buf, palette, mask) ==
    IF bpp = 1 THEN decode_1bpp(width, row, buf, palette)
    ELSE IF bpp = 4 /\ ~compression THEN decode_4bpp(width, row, buf, palette)
    ELSE IF bpp = 8 /\ ~compression THEN decode_8bpp(width, row, buf, palette)
    ELSE IF bpp = 16 THEN decode_16bpp(width, row, buf, mask)
    ELSE IF bpp = 24 THEN decode_24bpp(width, row, buf)
    ELSE IF bpp = 32 THEN decode_32bpp(width, row, buf, mask)
    ELSE Row(<<>>, NoFault)

----------------------------------------------------------------------------
(* The RLE8 / RLE4 loops.  A loop state st holds the cursor (x, y), the     *)
(* byte index, the set_pixel calls made so far in the iteration, the        *)
(* access that panicked and whether the end-of-bitmap escape was read.      *)
(* cx holds what the loop only reads: width, row_mod, palette, buffer and   *)
(* count.                                                                   *)

Context(h, c) ==
    [width |-> h.width, row_mod |-> IF h.bottom_up THEN -1 ELSE 1,
     palette |-> h.palette, buffer |-> c.buffer, count |-> c.count]

LoopState(c) ==
    [x |-> c.x, y |-> c.y, index |-> c.index, pix |-> <<>>, fault |-> NoFault,
     eob |-> c.eob]

\* Rust evaluates an argument once, before the call: Call(v) with v evaluated first
ByValue(Call(_), v) == CHOOSE r \in { Call(n) : n \in {v} } : TRUE

\* if x >= width { x = 0; y = ( ( y as i32 ) + row_mod ) as u32; }
Wrap(cx, st) ==
    IF st.x >= cx.width THEN [st EXCEPT !.x = 0, !.y = @ + cx.row_mod] ELSE st

\* let color = palette[ idx ]; builder.set_pixel( x, y, ... ); x += 1;
Draw(cx, st, idx) ==
    IF idx >= Len(cx.palette)
    THEN [st EXCEPT !.fault = PaletteFault(idx, cx.palette)]
    ELSE [st EXCEPT !.pix = Append(@, SetPixelCall(st.x, st.y, cx.palette[idx + 1])),
                    !.x = @ + 1]

\* a read of buffer[ i ]
InBuffer(cx, i) == i < cx.count

\* Escape with the delta's dy always added, whatever the direction of the image
Escape_DeltaUnsigned(cx, st, second) ==
    IF second = 0 THEN [st EXCEPT !.x = 0, !.y = @ + cx.row_mod]
    ELSE IF second = 1 THEN [st EXCEPT !.eob = TRUE]
    ELSE IF ~InBuffer(cx, st.index)
    THEN [st EXCEPT !.fault = BufferFault(st.index, cx.count)]
    ELSE IF ~InBuffer(cx, st.index + 1)
    THEN [st EXCEPT !.fault = BufferFault(st.index + 1, cx.count)]
    ELSE [st EXCEPT !.x = @ + cx.buffer[st.index + 1],
                    !.y = @ + cx.buffer[st.index + 2],
                    !.index = @ + 2]

Escape(cx, st, second) ==
    IF second = 0 THEN [st EXCEPT !.x = 0, !.y = @ + cx.row_mod]
    ELSE IF second = 1 THEN [st EXCEPT !.eob = TRUE]
    ELSE IF ~InBuffer(cx, st.index)
    THEN [st EXCEPT !.fault = BufferFault(st.index, cx.count)]
    ELSE IF ~InBuffer(cx, st.index + 1)
    THEN [st EXCEPT !.fault = BufferFault(st.index + 1, cx.count)]
    ELSE [st EXCEPT !.x = @ + cx.buffer[st.index + 1],
                    !.y = @ + cx.buffer[st.index + 2] * cx.row_mod,
                    !.index = @ + 2]

\* for _ in 0..second, from its k-th round on
RECURSIVE rle8_absolute(_, _, _, _)
rle8_absolute(cx, st, second, k) ==
    IF k >= second THEN st
    ELSE LET w == Wrap(cx, st)
         IN  IF ~InBuffer(cx, w.index)
             THEN [w EXCEPT !.fault = BufferFault(w.index, cx.count)]
             ELSE LET d == Draw(cx, w, cx.buffer[w.index + 1])
                  IN  IF d.fault # NoFault THEN d
                      ELSE IF d.index + 1 >= cx.count
                      THEN [d EXCEPT !.index = @ + 1]
                      ELSE ByValue(LAMBDA n : rle8_absolute(cx, n, second, k + 1),
                                   [d EXCEPT !.index = @ + 1])

\* encoded_run drawing every pixel of the run with its first colour
RECURSIVE encoded_run_FirstColorOnly(_, _, _, _, _, _)
encoded_run_FirstColorOnly(cx, st, first, idx1, idx2, k) ==
    IF k >= first THEN st
    ELSE LET w == Wrap(cx, st)
         IN  ByValue(LAMBDA n : encoded_run_FirstColorOnly(cx, n, first, idx1, idx2, k + 1),
                     Draw(cx, w, idx1))

RECURSIVE encoded_run(_, _, _, _, _, _)
encoded_run(cx, st, first, idx1, idx2, k) ==
    IF k >= first THEN st
    ELSE LET w == Wrap(cx, st)
         IN  ByValue(LAMBDA n : encoded_run(cx, n, first, idx1, idx2, k + 1),
                     Draw(cx, w, IF k % 2 = 0 THEN idx1 ELSE idx2))

\* rle8_iteration leaving the pad byte of an odd absolute run unread
rle8_iteration_NoPad(cx, st0) ==
    IF ~InBuffer(cx, st0.index + 1)
    THEN [st0 EXCEPT !.fault = BufferFault(st0.index + 1, cx.count)]
    ELSE LET first == cx.buffer[st0.index + 1]
             second == cx.buffer[st0.index + 2]
             st == [st0 EXCEPT !.index = @ + 2]
         IN  IF first = 0
             THEN IF second <= 2 THEN Escape(cx, st, second)
                  ELSE rle8_absolute(cx, st, second, 0)
             ELSE IF second >= Len(cx.palette)
             THEN [st EXCEPT !.fault = PaletteFault(second, cx.palette)]
             ELSE encoded_run(cx, st, first, second, second, 0)

rle8_iteration(cx, st0) ==
    IF ~InBuffer(cx, st0.index + 1)
    THEN [st0 EXCEPT !.fault = BufferFault(st0.index + 1, cx.count)]
    ELSE LET first == cx.buffer[st0.index + 1]
             second == cx.buffer[st0.index + 2]
             st == [st0 EXCEPT !.index = @ + 2]
         IN  IF first = 0
             THEN IF second <= 2 THEN Escape(cx, st, second)
                  ELSE LET a == rle8_absolute(cx, st, second, 0)
                       IN  IF a.fault # NoFault THEN a
                           ELSE [a EXCEPT !.index = @ + (second % 2)]
             ELSE IF second >= Len(cx.palette)
             THEN [st EXCEPT !.fault = PaletteFault(second, cx.palette)]
             ELSE encoded_run(cx, st, first, second, second, 0)

\* for i in 0..second_len, from i on
RECURSIVE rle4_absolute(_, _, _, _, _)
rle4_absolute(cx, st, second_len, even, i) ==
    IF i >= second_len THEN st
    ELSE LET w == Wrap(cx, st)
         IN  IF ~InBuffer(cx, w.index)
             THEN [w EXCEPT !.fault = BufferFault(w.index, cx.count)]
             ELSE LET byte == cx.buffer[w.index + 1]
                      d1 == Draw(cx, w, Shr(byte, 4) % 16)
                      d2 == IF d1.fault # NoFault THEN d1
                            ELSE IF i < second_len - 1 \/ even
                            THEN Draw(cx, Wrap(cx, d1), byte % 16)
                            ELSE d1
                  IN  IF d2.fault # NoFault THEN d2
                      ELSE IF d2.index + 1 >= cx.count
                      THEN [d2 EXCEPT !.index = @ + 1]
                      ELSE ByValue(LAMBDA n : rle4_absolute(cx, n, second_len, even, i + 1),
                                   [d2 EXCEPT !.index = @ + 1])

rle4_iteration(cx, st0) ==
    IF ~InBuffer(cx, st0.index + 1)
    THEN [st0 EXCEPT !.fault = BufferFault(st0.index + 1, cx.count)]
    ELSE LET first == cx.buffer[st0.index + 1]
             second == cx.buffer[st0.index + 2]
             st == [st0 EXCEPT !.index = @ + 2]
         IN  IF first = 0
             THEN IF second <= 2 THEN Escape(cx, st, second)
                  ELSE LET even == second % 2 = 0
                           second_len == (IF ~even THEN second + 1 ELSE second) \div 2
                           a == rle4_absolute(cx, st, second_len, even, 0)
                       IN  IF a.fault # NoFault THEN a
                           ELSE [a EXCEPT !.index = @ + (second_len % 2)]
             ELSE IF Shr(second, 4) % 16 >= Len(cx.palette)
             THEN [st EXCEPT !.fault = PaletteFault(Shr(second, 4) % 16, cx.palette)]
             ELSE IF second % 16 >= Len(cx.palette)
             THEN [st EXCEPT !.fault = PaletteFault(second % 16, cx.palette)]
             ELSE encoded_run(cx, st, first, Shr(second, 4) % 16, second % 16, 0)

----------------------------------------------------------------------------
(* decode, after the header *)

\* ( ( width * bpp + 31 ) / 32 ) * 4 on u32, computed on 16-bit halves of width;
\* over: width * bpp + 31 does not fit 32 bits
RowSize(width, bpp) ==
    LET low == (width % 65536) * bpp + 31
        high == (width \div 65536) * bpp + low \div 65536
    IN  [size |-> ((high % 65536) * 2048 + (low % 65536) \div 32) * 4,
         over |-> high >= 65536]

Compressed(h) == h.version # MSVERSION2_SIZE /\ h.hasInfo /\ h.compression # "None"

\* RowOf counting a bottom-up row from height instead of height - 1
RowOf_OffByOne(bottom_up, height, y) == IF bottom_up THEN height - y ELSE y

\* RowOf without the flip of bottom-up images
RowOf_Unflipped(bottom_up, height, y) == y

RowOf(bottom_up, height, y) == IF bottom_up THEN height - y - 1 ELSE y

SetSize ==
    /\ pc = "set_size"
    /\ sink' = Append(sink, SetSizeCall(hdr.width, hdr.height))
    /\ IF RowSize(hdr.width, hdr.bpp).over /\ checked
       THEN /\ Returns(Panic("attempt to multiply with overflow"))
            /\ UNCHANGED cur
       ELSE IF (hdr.bpp \in {1, 4, 8} /\ ~hdr.hasPalette)
                \/ (hdr.bpp \in {16, 32} /\ ~hdr.hasBitmask)
       THEN /\ Returns(Panic("called Option::unwrap() on a None value"))
            /\ UNCHANGED cur
       ELSE /\ cur' = [cur EXCEPT !.size = RowSize(hdr.width, hdr.bpp).size]
            /\ pc' = IF hdr.bpp = 8 /\ Compressed(hdr) THEN "rle8"
                     ELSE IF hdr.bpp = 4 /\ Compressed(hdr) THEN "rle4"
                     ELSE "raster"
            /\ UNCHANGED result
    /\ UNCHANGED <<in, checked, pos, hdr, fault, reads>>

\* the head of either RLE branch: the length check, the block read, the cursor
RleStart(msg, loop) ==
    IF hdr.image_size = 0
    THEN /\ Returns(Panic(msg))
         /\ UNCHANGED <<pos, cur, reads>>
    ELSE IF ~CanReadData(hdr.image_size)
    THEN /\ ReadFails(0)
         /\ UNCHANGED <<pos, cur>>
    ELSE /\ ReadsDone(1)
         /\ pos' = pos + hdr.image_size
         /\ cur' = [cur EXCEPT !.count = hdr.image_size,
                               !.buffer = DataBytes(hdr.image_size),
                               !.dpos = @ + hdr.image_size,
                               !.x = 0,
                               !.y = IF hdr.bottom_up THEN hdr.height - 1 ELSE 0,
                               !.index = 0]
         /\ pc' = loop
         /\ UNCHANGED result

\* RleRound without the break at the end-of-bitmap escape
RleRound_NoBreak(st) ==
    /\ sink' = sink \o st.pix
    /\ cur' = [cur EXCEPT !.x = st.x, !.y = st.y, !.index = st.index, !.eob = st.eob]
    /\ fault' = st.fault
    /\ IF st.fault # NoFault
       THEN Returns(Panic("index out of bounds"))
       ELSE UNCHANGED <<pc, result>>

\* one round of either loop, st being what the round's body computed
RleRound(st) ==
    /\ sink' = sink \o st.pix
    /\ cur' = [cur EXCEPT !.x = st.x, !.y = st.y, !.index = st.index, !.eob = st.eob]
    /\ fault' = st.fault
    /\ IF st.fault # NoFault
       THEN Returns(Panic("index out of bounds"))
       ELSE IF st.eob
       THEN pc' = "build" /\ UNCHANGED result
       ELSE UNCHANGED <<pc, result>>

Rle8Start ==
    /\ pc = "rle8"
    /\ RleStart("Image size in bytes can't be null when using RLE8 compression", "rle8_loop")
    /\ UNCHANGED <<in, checked, hdr, sink, fault>>

\* Rle8Step leaving the loop only once index has passed count
Rle8Step_ExitPastEnd ==
    /\ pc = "rle8_loop"
    /\ IF cur.index > cur.count
       THEN /\ pc' = "build"
            /\ UNCHANGED <<cur, sink, result, fault>>
       ELSE RleRound(rle8_iteration(Context(hdr, cur), LoopState(cur)))
    /\ UNCHANGED <<in, checked, pos, hdr, reads>>

Rle8Step ==
    /\ pc = "rle8_loop"
    /\ IF cur.index >= cur.count
       THEN /\ pc' = "build"
            /\ UNCHANGED <<cur, sink, result, fault>>
       ELSE RleRound(rle8_iteration(Context(hdr, cur), LoopState(cur)))
    /\ UNCHANGED <<in, checked, pos, hdr, reads>>

Rle4Start ==
    /\ pc = "rle4"
    /\ RleStart("Image size in bytes can't be null when using RLE4 compression", "rle4_loop")
    /\ UNCHANGED <<in, checked, hdr, sink, fault>>

Rle4Step ==
    /\ pc = "rle4_loop"
    /\ IF cur.index >= cur.count
       THEN /\ pc' = "build"
            /\ UNCHANGED <<cur, sink, result, fault>>
       ELSE RleRound(rle4_iteration(Context(hdr, cur), LoopState(cur)))
    /\ UNCHANGED <<in, checked, pos, hdr, reads>>

\* one round of `for y in 0..height`, or its end
RasterRow ==
    /\ pc = "raster"
    /\ IF cur.row >= hdr.height
       THEN /\ pc' = "build"
            /\ UNCHANGED <<pos, cur, sink, result, fault, reads>>
       ELSE IF ~CanReadData(cur.size)
       THEN /\ ReadFails(0)
            /\ UNCHANGED <<pos, cur, sink, fault>>
       ELSE LET r == decode_row(hdr.bpp, Compressed(hdr), hdr.width,
                                RowOf(hdr.bottom_up, hdr.height, cur.row),
                                DataBytes(cur.size), hdr.palette, hdr.bitmask)
            IN  /\ ReadsDone(1)
                /\ pos' = pos + cur.size
                /\ sink' = sink \o r.pix
                /\ fault' = r.fault
                /\ cur' = [cur EXCEPT !.row = @ + 1, !.dpos = @ + cur.size]
                /\ IF r.fault # NoFault
                   THEN Returns(Panic(IF r.fault.kind \in {"div0", "shift", "overflow"}
                                      THEN "arithmetic" ELSE "index out of bounds"))
                   ELSE UNCHANGED <<pc, result>>
    /\ UNCHANGED <<in, checked, hdr>>

\* Build with the builder's result dropped
Build_IgnoresResult ==
    /\ pc = "build"
    /\ \E r \in {Ok, BuildErr} :
          /\ sink' = Append(sink, BuildCall(r))
          /\ Returns(Ok)
    /\ UNCHANGED <<in, checked, pos, hdr, cur, fault, reads>>

\* builder.build(): its result is decode's
Build ==
    /\ pc = "build"
    /\ \E r \in {Ok, BuildErr} :
          /\ sink' = Append(sink, BuildCall(r))
          /\ Returns(r)
    /\ UNCHANGED <<in, checked, pos, hdr, cur, fault, reads>>

----------------------------------------------------------------------------
(* The inputs: byte sources, given by the fields and bytes they hold.      *)
(* wfield / hfield are the signed readings of the width and height fields. *)

BaseInput ==
    [magic0 |-> 66, magic1 |-> 77, hsize |-> MSVERSION3_SIZE, wfield |-> 1, hfield |-> 1,
     planes |-> 1, bpp |-> 1, comp |-> 0, imageSize |-> 0, usedColors |-> 0,
     maskR |-> U32(0, 31744), maskG |-> U32(0, 992), maskB |-> U32(0, 31),
     maskA |-> Zero32,
     palRes |-> 7, cut |-> -1, rest |-> <<>>]

HeaderSizes == {MSVERSION2_SIZE, MSVERSION3_SIZE, MSVERSION4_SIZE, MSVERSION5_SIZE, 200}
BppValues == {1, 2, 4, 8, 16, 24, 32}
Cuts == {-1, 10, 16, 20, 28}
Masks ==
    { <<U32(0, 31744), U32(0, 992), U32(0, 31)>>,
      <<U32(0, 63488), U32(0, 2016), U32(0, 31)>>,
      <<Zero32, U32(0, 992), U32(0, 31)>>,
      <<U32(255, 0), U32(0, 65280), U32(0, 255)>> }

Patterns == << <<128, 1, 16, 0, 33, 2, 64>>, <<0, 1, 0, 0, 1, 1, 0>> >>

\* n bytes of pixel data following pattern p
Raster(p, n) == [j \in 1..n |-> Patterns[p][((j - 1) % Len(Patterns[p])) + 1]]

\* the bytes height rows of the raster take
RasterBytes(w, h, bpp) == Abs(h) * RowSize(Abs(w), bpp).size

\* sources that differ in the file header, the header size, the planes, or are cut short
FileHeaderInputs ==
    { [BaseInput EXCEPT !.magic0 = m0, !.magic1 = m1, !.hsize = hs, !.planes = pl,
                        !.cut = ct, !.rest = IF ct = -1 THEN Raster(1, 4) ELSE <<>>] :
        m0 \in {66, 0}, m1 \in {77, 0}, hs \in HeaderSizes, pl \in {0, 1}, ct \in Cuts }

\* sources that differ in version, bits per pixel, compression code and palette size
FormatInputs ==
    { [BaseInput EXCEPT !.hsize = hs, !.bpp = b, !.comp = c, !.usedColors = u,
                        !.imageSize = 2, !.rest = Raster(2, 4)] :
        hs \in HeaderSizes, b \in BppValues, c \in 0..4, u \in {0, 2, 3} }

\* the mask bytes and compression code tried at a bit depth
MaskChoices(b) ==
    { <<U32(0, 31744), U32(0, 992), U32(0, 31), 0>> } \cup
    (IF b \in {16, 32} THEN { <<k[1], k[2], k[3], 3>> : k \in Masks } ELSE {})

\* uncompressed images of every size and orientation
RasterInputsAt(b) ==
    { [BaseInput EXCEPT !.hsize = hs, !.bpp = b, !.wfield = w, !.hfield = h,
                        !.comp = m[4], !.usedColors = u,
                        !.maskR = m[1], !.maskG = m[2], !.maskB = m[3],
                        !.rest = Raster(p, RasterBytes(w, h, b) - short)] :
        hs \in {MSVERSION2_SIZE, MSVERSION3_SIZE, MSVERSION4_SIZE},
        w \in {-1} \cup 0..MaxDim, h \in (-MaxDim)..MaxDim,
        m \in MaskChoices(b), u \in {0, 1}, p \in {1, 2}, short \in {0, 1} }

RasterInputs == UNION { RasterInputsAt(b) : b \in {1, 4, 8, 16, 24, 32} }

Tokens ==
    { <<0, 0>>, <<0, 1>>, <<0, 2, 1, 1>>, <<0, 3, 1, 0, 1, 0>>, <<0, 5, 16, 16, 16, 0>>,
      <<2, 16>>, <<3, 1>>, <<0>>, <<2>> }

RECURSIVE Streams(_)
Streams(n) ==
    IF n = 0 THEN { <<>> }
    ELSE LET shorter == Streams(n - 1)
         IN  shorter \cup { s \o t : s \in shorter, t \in Tokens }

\* RLE-compressed images: the declared length is that of the stream
RleInputs ==
    { [BaseInput EXCEPT !.bpp = b, !.comp = IF b = 8 THEN 1 ELSE 2,
                        !.wfield = w, !.hfield = h, !.usedColors = u,
                        !.imageSize = Len(s), !.rest = s] :
        b \in {4, 8}, w \in {1, MaxDim}, h \in {-MaxDim, MaxDim}, u \in {2, 0},
        s \in Streams(MaxOps) }

\* RLE-compressed images whose declared length is not that of the stream
RleLengthInputs ==
    { [BaseInput EXCEPT !.bpp = b, !.comp = IF b = 8 THEN 1 ELSE 2,
                        !.wfield = 2, !.hfield = h, !.usedColors = 2,
                        !.imageSize = n, !.rest = s] :
        b \in {4, 8}, h \in {-1, 1}, n \in {0, 2, 4, 6, 7},
        s \in { <<0, 1, 2, 1>>, <<2, 1, 0, 1, 3, 0>> } }

\* channel masks more than 24 bits wide: 32 bits, 26 bits, and 25 bits from bit 7 up
WideMasks ==
    { <<U32(65535, 65535), U32(0, 65280), U32(0, 255)>>,
      <<U32(1023, 65535), U32(64512, 0), U32(0, 255)>>,
      <<U32(255, 0), U32(65535, 65408), U32(0, 127)>> }

\* the four bytes of a 32-bit pixel
WidePixels == { <<255, 255, 255, 255>>, <<0, 0, 0, 0>>, <<1, 0, 128, 2>> }

\* Info3 bitfield images of one 32-bit pixel under masks of any width
WideMaskInputs ==
    { [BaseInput EXCEPT !.bpp = 32, !.comp = 3, !.maskR = m[1], !.maskG = m[2],
                        !.maskB = m[3], !.rest = px] :
        m \in WideMasks, px \in WidePixels }

\* the extreme values a dimension field of the header version can hold
ExtremeFields(hs) ==
    {-32768, -32767, 32767} \cup
    (IF hs = MSVERSION2_SIZE THEN {} ELSE {I32Min, -2147483647, 2147483647})

\* sources with an extreme width or height field and no pixel data
DimensionInputs ==
    UNION { { [BaseInput EXCEPT !.hsize = hs, !.wfield = d[1], !.hfield = d[2],
                                !.rest = <<>>] :
                d \in (ExtremeFields(hs) \X {1}) \cup ({1} \X ExtremeFields(hs)) } :
            hs \in {MSVERSION2_SIZE, MSVERSION3_SIZE, MSVERSION4_SIZE} }

\* Info3 images whose width * bpp + 31 does not fit 32 bits: 2^27 pixels of 32 bits
\* (the product is 2^32) and 178956971 pixels of 24 bits (the product is 2^32 + 8)
WideRows == { <<134217728, 32>>, <<178956971, 24>> }

OverflowInputs ==
    { [BaseInput EXCEPT !.bpp = d[2], !.wfield = d[1], !.hfield = h, !.rest = Raster(1, 4)] :
        d \in WideRows, h \in {1, -1} }

\* 4 x 1 RLE4 images whose stream is one absolute run of five pixels: the opcode,
\* three packed bytes (nibbles 1 2, 3 0, 1 -) and a pad byte
NibbleRunInputs ==
    { [BaseInput EXCEPT !.bpp = 4, !.comp = 2, !.wfield = 4, !.hfield = h,
                        !.imageSize = 6, !.rest = <<0, 5, 18, 48, 16, 0>>] :
        h \in {1, -1} }

Inputs == FileHeaderInputs \cup FormatInputs \cup RasterInputs \cup RleInputs
          \cup RleLengthInputs \cup WideMaskInputs \cup DimensionInputs
          \cup OverflowInputs \cup NibbleRunInputs

----------------------------------------------------------------------------

Init ==
    /\ in \in Inputs
    /\ checked \in BOOLEAN
    /\ pc = "start"
    /\ pos = 0
    /\ hdr = NoHeader
    /\ cur = NoCursor
    /\ sink = <<>>
    /\ result = Running
    /\ fault = NoFault
    /\ reads = [calls |-> 0, failed |-> 0]

Next ==
    \/ ReadFileHeader
    \/ ReadVersion
    \/ ParseCore
    \/ ParseInfo
    \/ ReadBitmask
    \/ ReadPalette
    \/ SetSize
    \/ Rle8Start
    \/ Rle8Step
    \/ Rle4Start
    \/ Rle4Step
    \/ RasterRow
    \/ Build

Spec == Init /\ [][Next]_vars

----------------------------------------------------------------------------
(* What the properties below read off the sink *)

CallsOf(op) == { i \in DOMAIN sink : sink[i].op = op }

PixelCalls == SelectSeq(sink, LAMBDA e : e.op = "set_pixel")

CallsAt(x, y) == { i \in CallsOf("set_pixel") : sink[i].x = x /\ sink[i].y = y }

Finished == pc = "done"

\* decode took the branch `for y in 0..height`
OnRaster ==
    /\ pc \in {"raster", "build", "done"}
    /\ sink # <<>>
    /\ ~(hdr.bpp \in {4, 8} /\ Compressed(hdr))

\* decode took one of the two RLE branches and read the compressed block
OnRle == cur.count > 0

IoError == Err("failed to fill whole buffer")

HeaderMessages ==
    { "Invalid bitmap file.", "Invalid bitmap header", "Invalid width.", "Invalid height.",
      "Invalid number of color planes", "Invalid bits per pixel", "Invalid compression",
      "Unexpected color palette" }

HeaderRejected == result.tag = "Err" /\ result.msg \in HeaderMessages

----------------------------------------------------------------------------
(* C1: whenever decode returns Ok, on the raster path and on the RLE paths *)
(* alike, set_size was called exactly once and before any set_pixel, and   *)
(* set_pixel was called exactly width * height times, exactly once for     *)
(* each coordinate (x, y) of the image.                                    *)
C1_EveryPixelOnce ==
    (Finished /\ result = Ok) =>
        /\ Cardinality(CallsOf("set_size")) = 1
        /\ sink[1].op = "set_size"
        /\ Len(PixelCalls) = hdr.width * hdr.height
        /\ \A x \in 0..(hdr.width - 1), y \in 0..(hdr.height - 1) :
              Cardinality(CallsAt(x, y)) = 1

(* C2: build is called exactly once, after the last set_pixel, and what it *)
(* returns is what decode returns; a run that ends in an error of the      *)
(* header or of a read (or in a panic) never calls build, and a read that  *)
(* failed is the last read made.                                           *)
C2_BuildOnceLast ==
    /\ Cardinality(CallsOf("build")) <= 1
    /\ \A i \in CallsOf("build") : i = Len(sink) /\ Finished /\ result.tag = sink[i].ret
    /\ (Finished /\ result.tag = "Ok") => CallsOf("build") # {}
    /\ (Finished /\ (HeaderRejected \/ result = IoError \/ result.tag = "Panic"))
          => CallsOf("build") = {}
    /\ reads.failed <= 1
    /\ reads.failed = 1 => (Finished /\ result = IoError)

\* decode returned Ok after pixels were set, build being the last call on the sink
C2_Witness ==
    /\ Finished
    /\ result = Ok
    /\ Len(PixelCalls) >= 2
    /\ sink[Len(sink)].op = "build"

(* C3: whenever decode rejects the header (magic, header size, dimension,  *)
(* planes, bits per pixel, compression, palette), no call at all was made  *)
(* on the sink: neither set_size nor set_pixel.                            *)
C3_RejectedHeaderNoCalls ==
    HeaderRejected => (Finished /\ sink = <<>>)

\* a header rejected after the version and the dimensions were read
C3_Witness ==
    /\ HeaderRejected
    /\ result.msg = "Invalid compression"
    /\ hdr.width > 0
    /\ sink = <<>>

(* C4: decode returns the bad-magic error for every source whose first two *)
(* bytes are not 0x42 then 0x4D, also when only one of them is wrong, and  *)
(* goes on to the bitmap header only when both match.                      *)
C4_MagicBothBytes ==
    /\ (Finished /\ reads.calls >= 1 /\ reads.failed = 0
          /\ ~(in.magic0 = 66 /\ in.magic1 = 77))
          => result = Err("Invalid bitmap file.")
    /\ pc = "version" => (in.magic0 = 66 /\ in.magic1 = 77)

(* C5: the header sizes 12, 40, 108 and 124 are each accepted and parsed   *)
(* as a version; every other size is rejected with the unsupported-version *)
(* error and no set_pixel call.                                            *)
C5_VersionBySize ==
    /\ (in.magic0 = 66 /\ in.magic1 = 77 /\ result = Err("Invalid bitmap header"))
          => (in.hsize \notin {MSVERSION2_SIZE, MSVERSION3_SIZE, MSVERSION4_SIZE,
                               MSVERSION5_SIZE} /\ CallsOf("set_pixel") = {})
    /\ pc = "core" => hdr.version = in.hsize

(* C6: with RLE8 at 8 bpp or RLE4 at 4 bpp and an image size of 0, decode  *)
(* returns an error value to its caller, it does not abort the process,    *)
(* and no set_pixel call is made.                                          *)
C6_MissingLengthIsError ==
    (Finished /\ sink # <<>> /\ hdr.compression \in {"RLE8Bit", "RLE4Bit"}
        /\ hdr.image_size = 0)
        => (result.tag = "Err" /\ CallsOf("set_pixel") = {})

(* C7: a palette lookup whose index is not below the number of palette     *)
(* entries makes decode return an error value (palette index out of        *)
(* range); the lookup is never made outside the palette.                   *)
C7_PaletteIndexIsError ==
    fault.kind = "palette" => (fault.idx < fault.len \/ result.tag = "Err")

(* C8: every read of the compressed buffer in the RLE8 and RLE4 loops uses *)
(* an index strictly below the image size: the second byte of an opcode,   *)
(* the two bytes of a delta, the literals of an absolute run.              *)
C8_BufferReadsInside ==
    fault.kind = "buffer" => fault.idx < fault.len

(* C9: once the end-of-bitmap escape (0, 1) is read, which takes its two   *)
(* bytes and sets no pixel, no further byte of the compressed buffer is    *)
(* interpreted and no further set_pixel call is made, whatever remains of  *)
(* the declared image size.                                                *)
C9_EndOfBitmapStops ==
    [][ /\ (~cur.eob /\ cur'.eob) => (cur'.index = cur.index + 2 /\ sink' = sink)
        /\ cur.eob => /\ cur'.index = cur.index
                      /\ cur'.eob
                      /\ \A i \in DOMAIN sink' : sink'[i].op = "set_pixel" => i <= Len(sink)
      ]_vars

\* decode ended after an end-of-bitmap escape that was not at the end of the buffer
C9_Witness ==
    /\ Finished
    /\ cur.eob
    /\ cur.index + 2 <= cur.count
    /\ Len(PixelCalls) > 0

\* the scanline that pixel call i of the raster path comes from: rows of width > 0
\* each start with a call at x = 0
ScanlineOf(i) == Cardinality({ j \in 1..i : PixelCalls[j].x = 0 }) - 1

DestinationRow(k) == IF in.hfield >= 0 THEN hdr.height - 1 - k ELSE k

\* the colour the 24-bit scanline k of the source holds at column x
StoredColor24(k, x) ==
    LET o == k * cur.size + 3 * x
    IN  Color(in.rest[o + 3], in.rest[o + 2], in.rest[o + 1], 255)

(* C10: on the raster path the k-th scanline stored in the file is         *)
(* delivered with destination row height - 1 - k when the height field is  *)
(* not negative and with row k when it is negative (at 24 bpp: with the    *)
(* colours that scanline holds).                                           *)
C10_RowOrientation ==
    OnRaster =>
        \A i \in DOMAIN PixelCalls :
            /\ PixelCalls[i].y = DestinationRow(ScanlineOf(i))
            /\ hdr.bpp = 24 =>
                  PixelCalls[i].c = StoredColor24(ScanlineOf(i), PixelCalls[i].x)

\* a bottom-up image of two rows, both delivered: the first stored row is the last
C10_Witness ==
    /\ OnRaster
    /\ Finished
    /\ result = Ok
    /\ in.hfield = 2
    /\ hdr.width = 2
    /\ Len(PixelCalls) = 4
    /\ PixelCalls[1].y = 1
    /\ PixelCalls[4].y = 0

----------------------------------------------------------------------------
\* (x, y) of call a comes before (x, y) of call b in row-major order, rows top to bottom
RowMajorBefore(a, b) == a.y < b.y \/ (a.y = b.y /\ a.x < b.x)

(* C11, as the specification states it: the set_pixel calls of decode are  *)
(* made in row-major order of their destination coordinates, rows from     *)
(* y = 0 to y = height - 1 whatever the orientation of the bitmap, columns *)
(* from left to right.                                                     *)
C11_RowMajorTopDown ==
    \A i \in 1..(Len(PixelCalls) - 1) : RowMajorBefore(PixelCalls[i], PixelCalls[i + 1])

\* the row of the first scanline stored in the file, and the step to the next one
FirstStoredRow == IF in.hfield > 0 THEN hdr.height - 1 ELSE 0
StoredRowStep == IF in.hfield > 0 THEN -1 ELSE 1

(* C11, amended: on the raster path the set_pixel calls follow the order   *)
(* of the scanlines in the file.  The first call is column 0 of the first  *)
(* stored scanline (row height - 1 of a bottom-up bitmap, row 0 of a       *)
(* top-down one); every later call is the next column of the same row, or  *)
(* column 0 of the next stored scanline: one row up in a bottom-up bitmap, *)
(* one row down in a top-down one.                                         *)
C11_StoredRowOrder ==
    OnRaster =>
        /\ PixelCalls # <<>> =>
              PixelCalls[1].x = 0 /\ PixelCalls[1].y = FirstStoredRow
        /\ \A i \in 1..(Len(PixelCalls) - 1) :
              IF PixelCalls[i + 1].y = PixelCalls[i].y
              THEN PixelCalls[i + 1].x = PixelCalls[i].x + 1
              ELSE /\ PixelCalls[i + 1].x = 0
                   /\ PixelCalls[i + 1].y = PixelCalls[i].y + StoredRowStep

\* a bottom-up 8-bit image of 2 x 2 pixels, delivered whole: (0,1) (1,1) (0,0) (1,0)
C11_Witness ==
    /\ OnRaster
    /\ result = Ok
    /\ hdr.bpp = 8
    /\ hdr.bottom_up
    /\ Len(PixelCalls) = 4
    /\ <<PixelCalls[1].x, PixelCalls[1].y>> = <<0, 1>>
    /\ <<PixelCalls[2].x, PixelCalls[2].y>> = <<1, 1>>
    /\ <<PixelCalls[3].x, PixelCalls[3].y>> = <<0, 0>>
    /\ <<PixelCalls[4].x, PixelCalls[4].y>> = <<1, 0>>

----------------------------------------------------------------------------
\* the raw 16-bit or 32-bit pixel the scanline k of the source holds at column x
StoredPixel(k, x) ==
    LET n == hdr.bpp \div 8
        o == k * cur.size + n * x
    IN  U32(IF n = 4 THEN in.rest[o + 3] + 256 * in.rest[o + 4] ELSE 0,
            in.rest[o + 1] + 256 * in.rest[o + 2])

\* a bitfield image taken from the stream with its masks and none of R, G, B zero
NonzeroMasks ==
    /\ hdr.bpp \in {16, 32}
    /\ hdr.hasBitmask
    /\ hdr.bitmask.red # Zero32 /\ hdr.bitmask.green # Zero32 /\ hdr.bitmask.blue # Zero32

\* channel value v is what the claim states for raw pixel p under mask m
FullScale(p, m, v) ==
    /\ And32(p, m) = m => v = 255
    /\ And32(p, m) = Zero32 => v = 0

(* C12: under nonzero channel masks of any width, masks more than 24 bits  *)
(* wide included, the rescale never fails and every delivered pixel has    *)
(* channel value 255 where the raw pixel holds all bits of the mask and 0  *)
(* where it holds none of them.                                            *)
C12_FullScaleExact ==
    (OnRaster /\ NonzeroMasks) =>
        /\ fault.kind # "overflow"
        /\ \A i \in DOMAIN PixelCalls :
              LET p == StoredPixel(ScanlineOf(i), PixelCalls[i].x)
              IN  /\ FullScale(p, hdr.bitmask.red, PixelCalls[i].c.r)
                  /\ FullScale(p, hdr.bitmask.green, PixelCalls[i].c.g)
                  /\ FullScale(p, hdr.bitmask.blue, PixelCalls[i].c.b)

----------------------------------------------------------------------------
\* the (compression code, bpp) pairs of the table
AcceptedPairs ==
    { <<0, b>> : b \in {1, 4, 8, 16, 24, 32} } \cup { <<1, 8>>, <<2, 4>>, <<3, 16>>, <<3, 32>> }

\* Info::from_buffer was called and has returned
InfoParsed == hdr.version = MSVERSION3_SIZE /\ hdr.bpp # 0 /\ pc # "info"

----------------------------------------------------------------------------
\* Core::from_buffer was called and has returned
CoreParsed == hdr.version # 0 /\ pc # "core"

DimensionErrors == { Err("Invalid width."), Err("Invalid height.") }

\* the smallest value of the field of the header version: i16::MIN or i32::MIN
FieldMin == IF in.hsize = MSVERSION2_SIZE THEN -32768 ELSE I32Min

(* C14, as the specification states it: a width or height field holding    *)
(* the smallest value of its field width (-32768 in the 16-bit fields of   *)
(* Core2, -2147483648 in the 32-bit fields of the other versions) is       *)
(* rejected with an invalid-dimension error.                               *)
C14_FieldMinRejected ==
    (CoreParsed /\ (in.wfield = FieldMin \/ in.hfield = FieldMin)) =>
        result \in DimensionErrors

(* C14, amended: only -2147483648, in a 32-bit field, is rejected with the *)
(* invalid-width or invalid-height error; every other field value, -32768  *)
(* in a 16-bit Core2 field included, is accepted with its absolute value   *)
(* as the dimension.                                                       *)
C14_DimensionAbs ==
    /\ result = Err("Invalid width.") => in.wfield = I32Min
    /\ result = Err("Invalid height.") => in.hfield = I32Min /\ in.wfield # I32Min
    /\ CoreParsed =>
          IF in.wfield = I32Min THEN result = Err("Invalid width.")
          ELSE IF in.hfield = I32Min THEN result = Err("Invalid height.")
          ELSE /\ result \notin DimensionErrors
               /\ hdr.bpp # 0 => hdr.width = Abs(in.wfield) /\ hdr.height = Abs(in.hfield)
               /\ \A i \in CallsOf("set_size") :
                     sink[i].x = Abs(in.wfield) /\ sink[i].y = Abs(in.hfield)
    /\ \A i \in CallsOf("set_size") : sink[i].x >= 0 /\ sink[i].y >= 0

\* a Core2 header whose width field is -32768 is accepted with width 32768
C14_Witness ==
    /\ in.hsize = MSVERSION2_SIZE
    /\ in.wfield = -32768
    /\ hdr.width = 32768
    /\ \E i \in CallsOf("set_size") : sink[i].x = 32768

----------------------------------------------------------------------------
(* The 16-bit and 32-bit row decoders as functions of their arguments: a   *)
(* row of one pixel under any BitfieldMask, alpha mask included.           *)

\* RGBA5551, RGBA4444, ARGB8888, RGB555 without alpha, ARGB4444, RGBA8888
RowMasks ==
    { <<U32(0, 31744), U32(0, 992), U32(0, 31), U32(0, 32768)>>,
      <<U32(0, 61440), U32(0, 3840), U32(0, 240), U32(0, 15)>>,
      <<U32(255, 0), U32(0, 65280), U32(0, 255), U32(65280, 0)>>,
      <<U32(0, 31744), U32(0, 992), U32(0, 31), Zero32>>,
      <<U32(0, 3840), U32(0, 240), U32(0, 15), U32(0, 61440)>>,
      <<U32(65280, 0), U32(255, 0), U32(0, 65280), U32(0, 255)>> }

RowPixels ==
    { <<255, 255, 255, 255>>, <<0, 0, 0, 0>>, <<5, 160, 80, 10>>, <<15, 0, 0, 0>>,
      <<240, 255, 255, 0>> }

RowInputs ==
    { [BaseInput EXCEPT !.bpp = b, !.comp = 3, !.maskR = m[1], !.maskG = m[2],
                        !.maskB = m[3], !.maskA = m[4],
                        !.rest = SubSeq(px, 1, b \div 8)] :
        b \in {16, 32}, m \in RowMasks, px \in RowPixels }

InitRows ==
    /\ in \in RowInputs
    /\ checked \in BOOLEAN
    /\ pc = "row"
    /\ pos = 0
    /\ hdr = [NoHeader EXCEPT !.width = 1, !.height = 1, !.bpp = in.bpp,
                              !.hasBitmask = TRUE,
                              !.bitmask = [red |-> in.maskR, green |-> in.maskG,
                                           blue |-> in.maskB, alpha |-> in.maskA]]
    /\ cur = [NoCursor EXCEPT !.size = in.bpp \div 8]
    /\ sink = <<>>
    /\ result = Running
    /\ fault = NoFault
    /\ reads = [calls |-> 0, failed |-> 0]

\* one call decode_16bpp( width, row, buf, .., mask, builder ) or decode_32bpp( .. )
DecodeRow ==
    /\ pc = "row"
    /\ LET r == decode_row(hdr.bpp, FALSE, hdr.width, 0, in.rest, hdr.palette, hdr.bitmask)
       IN  /\ sink' = r.pix
           /\ fault' = r.fault
           /\ result' = IF r.fault # NoFault THEN Panic("arithmetic") ELSE Ok
    /\ pc' = "row_done"
    /\ UNCHANGED <<in, checked, pos, hdr, cur, reads>>

NextRows == DecodeRow

SpecRows == InitRows /\ [][NextRows]_vars

----------------------------------------------------------------------------
\* the number a u32 below 2^31 stands for
ToInt(u) == u.hi * 65536 + u.lo

\* floor(255 * ((raw & mask) >> tz(mask)) / (mask >> tz(mask))) for a nonzero mask of
\* at most 23 bits from its lowest set bit, in unbounded arithmetic
ExactScale(raw, mask) ==
    LET tz == trailing_zeros32(mask)
    IN  (255 * ToInt(Shr32(And32(raw, mask), tz))) \div ToInt(Shr32(mask, tz))

\* the raw pixel of the one-pixel row
RowPixel ==
    U32(IF hdr.bpp = 32 THEN in.rest[3] + 256 * in.rest[4] ELSE 0,
        in.rest[1] + 256 * in.rest[2])

----------------------------------------------------------------------------
\* a 16-bit or 32-bit image whose red, green or blue mask is zero
ZeroMask ==
    /\ hdr.bpp \in {16, 32}
    /\ hdr.hasBitmask
    /\ Zero32 \in {hdr.bitmask.red, hdr.bitmask.green, hdr.bitmask.blue}

\* channel value v is the default d where the mask m of the channel is zero
DefaultWhereZero(m, v, d) == m = Zero32 => v = d

(* C16: under a channel mask of 0 the 16-bit and 32-bit decoders shift by  *)
(* no 32 bits and divide by no zero, and deliver every pixel with the      *)
(* default of that channel: 0 for red, green and blue, 255 for alpha.      *)
C16_ZeroMaskDefault ==
    (OnRaster /\ ZeroMask) =>
        /\ fault.kind \notin {"shift", "div0"}
        /\ \A i \in DOMAIN PixelCalls :
              /\ DefaultWhereZero(hdr.bitmask.red, PixelCalls[i].c.r, 0)
              /\ DefaultWhereZero(hdr.bitmask.green, PixelCalls[i].c.g, 0)
              /\ DefaultWhereZero(hdr.bitmask.blue, PixelCalls[i].c.b, 0)
              /\ DefaultWhereZero(hdr.bitmask.alpha, PixelCalls[i].c.a, 255)

----------------------------------------------------------------------------
\* the mask of an image without bitfield compression
ImplicitMask(bpp) ==
    IF bpp = 16
    THEN [red |-> U32(0, 31744), green |-> U32(0, 992), blue |-> U32(0, 31), alpha |-> Zero32]
    ELSE [red |-> U32(255, 0), green |-> U32(0, 65280), blue |-> U32(0, 255), alpha |-> Zero32]

\* a well-formed Info3, V4 or V5 source of a 16-bit or 32-bit image without compression
PlainDirectColor ==
    /\ in.magic0 = 66 /\ in.magic1 = 77
    /\ in.hsize \in {MSVERSION3_SIZE, MSVERSION4_SIZE, MSVERSION5_SIZE}
    /\ in.planes = 1
    /\ in.bpp \in {16, 32}
    /\ in.comp = 0
    /\ in.usedColors = 0
    /\ in.cut = -1
    /\ in.wfield # I32Min /\ in.hfield # I32Min

(* C17: an Info3, V4 or V5 image of 16 or 32 bits per pixel without        *)
(* compression is decoded under the implicit mask of its bit depth,        *)
(* whatever mask bytes the source holds: its header is accepted and every  *)
(* pixel delivered is the rescale of the stored pixel under that mask,     *)
(* with alpha 255.  A mask comes from the stream only under Bitfield.      *)
C17_ImplicitMasks ==
    /\ (hdr.hasBitmask /\ in.comp # 3) => hdr.bitmask = ImplicitMask(hdr.bpp)
    /\ (PlainDirectColor /\ Finished) =>
          /\ ~HeaderRejected
          /\ result # Panic("attempt to shift left with overflow")
          /\ hdr.hasBitmask
          /\ \A i \in DOMAIN PixelCalls :
                LET p == StoredPixel(ScanlineOf(i), PixelCalls[i].x)
                    m == ImplicitMask(in.bpp)
                IN  PixelCalls[i].c = Color(ExactScale(p, m.red), ExactScale(p, m.green),
                                            ExactScale(p, m.blue), 255)

----------------------------------------------------------------------------
\* paletteColorCount of the header; a Core2 header counts as 0
PaletteColorCount == IF in.hsize = MSVERSION2_SIZE THEN 0 ELSE in.usedColors

\* the number of palette entries the claim states
StatedPaletteSize ==
    IF PaletteColorCount # 0 THEN PaletteColorCount
    ELSE IF in.bpp < 16 THEN Pow2(in.bpp)
    ELSE 0

(* C18: for every header version the palette the parser reads has          *)
(* paletteColorCount entries if that count is nonzero, else 2^bpp entries  *)
(* when bpp < 16, else none; so an image of 16 or more bits per pixel      *)
(* with paletteColorCount 0, a Core2 or V4 image of 24 bpp included, meets *)
(* no palette error.                                                       *)
C18_PaletteSize ==
    /\ hdr.hasPalette => Len(hdr.palette) = StatedPaletteSize
    /\ StatedPaletteSize = 0 =>
          /\ result # Err("Unexpected color palette")
          /\ result # Panic("attempt to shift left with overflow")

\* the palette alpha the claim states
OpaquePalette == \A i \in DOMAIN hdr.palette : hdr.palette[i].a = 255

(* C19: every pixel whose colour comes from the palette (1, 4 and 8 bpp,   *)
(* raster and RLE) is delivered with alpha 255, for every header version   *)
(* and whatever the 4th byte of the palette entry holds.                   *)
C19_PaletteAlpha ==
    hdr.bpp \in {1, 4, 8} =>
        \A i \in DOMAIN PixelCalls : PixelCalls[i].c.a = 255

(* C20: for an Info3, a V4 and a V5 header alike decode reads the          *)
(* compression code and validates it against bpp: an invalid pair is       *)
(* rejected, a valid one is kept together with imageDataSize and           *)
(* paletteColorCount, and RLE8 at 8 bpp and RLE4 at 4 bpp take the RLE     *)
(* branch of decode.                                                       *)
C20_InfoForEveryVersion ==
    /\ (in.magic0 = 66 /\ in.magic1 = 77 /\ in.cut = -1 /\ Finished
          /\ in.hsize \in {MSVERSION3_SIZE, MSVERSION4_SIZE, MSVERSION5_SIZE}) =>
              result # Err("Invalid bitmap header")
    /\ (hdr.version \in {MSVERSION3_SIZE, MSVERSION4_SIZE, MSVERSION5_SIZE}
          /\ hdr.bpp # 0 /\ pc # "info") =>
              IF <<in.comp, hdr.bpp>> \notin AcceptedPairs
              THEN result = Err("Invalid compression")
              ELSE /\ hdr.hasInfo
                   /\ hdr.compression = Compression_of(in.comp, hdr.bpp)
                   /\ hdr.image_size = in.imageSize
                   /\ hdr.used_colors = in.usedColors
                   /\ (in.comp \in {1, 2} /\ PixelCalls # <<>>) => OnRle

----------------------------------------------------------------------------
\* the bytes of the bitfield block and of the palette block the parser has read
BitfieldBlockBytes ==
    IF hdr.version = MSVERSION3_SIZE /\ hdr.hasInfo /\ hdr.compression = "Bitfield"
    THEN 12 ELSE 0

PaletteBlockBytes ==
    Len(hdr.palette) * (IF hdr.version = MSVERSION2_SIZE THEN 3 ELSE 4)

----------------------------------------------------------------------------
\* ceil(width * bpp / 32) * 4 in unbounded arithmetic, for width > 0
Stride(width, bpp) ==
    IF bpp = 24 THEN ((3 * width + 3) \div 4) * 4
    ELSE ((width - 1) \div (32 \div bpp) + 1) * 4

(* C22: on the raster path every scanline read takes exactly               *)
(* ((width * bpp + 31) / 32) * 4 bytes of the source and gives exactly     *)
(* width set_pixel calls, x = 0, 1, ..., width - 1 in that order (none for *)
(* width 0), as long as no row decoder has panicked.                       *)
C22_RowBytesAndPixels ==
    (OnRaster /\ fault = NoFault) =>
        /\ cur.dpos = cur.row * (IF hdr.width = 0 THEN 0 ELSE Stride(hdr.width, hdr.bpp))
        /\ Len(PixelCalls) = cur.row * hdr.width
        /\ \A i \in DOMAIN PixelCalls : PixelCalls[i].x = (i - 1) % hdr.width

----------------------------------------------------------------------------
\* byte b (from 0) of stored scanline k
ScanlineByte(k, b) == in.rest[k * cur.size + b + 1]

\* the palette index the spec's rule derives for column x of stored scanline k
StoredIndex(k, x) ==
    CASE hdr.bpp = 1 -> Shr(ScanlineByte(k, x \div 8), 7 - (x % 8)) % 2
      [] hdr.bpp = 4 -> IF x % 2 = 0 THEN ScanlineByte(k, x \div 2) \div 16
                                      ELSE ScanlineByte(k, x \div 2) % 16
      [] hdr.bpp = 8 -> ScanlineByte(k, x)

----------------------------------------------------------------------------
\* decode is in one of the RLE loops, about to read an opcode
InRleLoop == pc \in {"rle8_loop", "rle4_loop"} /\ cur.index < cur.count

\* the two bytes of the opcode at the cursor (the second one inside the buffer)
OpFirst == cur.buffer[cur.index + 1]
OpSecond == cur.buffer[cur.index + 2]
OpWhole == cur.index + 1 < cur.count

\* the vertical step of the cursor
RleStep == IF hdr.bottom_up THEN -1 ELSE 1

\* the set_pixel calls of the step being taken
NewCalls == SubSeq(sink', Len(sink) + 1, Len(sink'))

\* the palette index the claim gives pixel j (from 1) of an encoded run
RunIndex(j) ==
    IF pc = "rle8_loop" THEN OpSecond
    ELSE IF j % 2 = 1 THEN OpSecond \div 16 ELSE OpSecond % 16

\* where a pixel lands when the cursor stands at (x, y): wrapped first if x >= width
Landing(x, y) == IF x >= hdr.width THEN <<0, y + RleStep>> ELSE <<x, y>>

\* the step reads the encoded run (first > 0, second) and completes without a panic
EncodedRunStep == InRleLoop /\ OpWhole /\ OpFirst > 0 /\ fault' = NoFault

(* C24: an encoded run (count > 0, value) makes exactly count set_pixel    *)
(* calls: in RLE8 all with the colour of index value, in RLE4 with the     *)
(* high nibble for the 1st, 3rd, ... and the low nibble for the 2nd, 4th,  *)
(* ... pixel; before each pixel x >= width wraps the cursor to x = 0 and   *)
(* y + step, and x grows by one after each; the opcode takes two bytes.    *)
C24_EncodedRun ==
    [][EncodedRunStep =>
          /\ Len(NewCalls) = OpFirst
          /\ \A j \in DOMAIN NewCalls :
                /\ NewCalls[j].op = "set_pixel"
                /\ NewCalls[j].c = hdr.palette[RunIndex(j) + 1]
                /\ <<NewCalls[j].x, NewCalls[j].y>> =
                      IF j = 1 THEN Landing(cur.x, cur.y)
                      ELSE Landing(NewCalls[j - 1].x + 1, NewCalls[j - 1].y)
          /\ cur'.x = NewCalls[OpFirst].x + 1
          /\ cur'.y = NewCalls[OpFirst].y
          /\ cur'.index = cur.index + 2]_vars

\* an RLE4 run of three pixels at the start of a two-pixel-wide image, drawn: two
\* colours, and the third pixel wrapped to the next row
C24_Witness ==
    /\ pc = "rle4_loop"
    /\ cur.count >= 2
    /\ cur.index = 2
    /\ cur.buffer[1] = 3
    /\ hdr.width = 2
    /\ Len(PixelCalls) = 3
    /\ PixelCalls[1].c # PixelCalls[2].c
    /\ PixelCalls[3].x = 0
    /\ PixelCalls[3].y = PixelCalls[1].y + RleStep

----------------------------------------------------------------------------
\* the literal bytes an absolute run of n pixels takes
LiteralBytes(n) == IF pc = "rle8_loop" THEN n ELSE (n + 1) \div 2

\* the palette index of pixel j (from 1) of the absolute run at the cursor
LiteralIndex(j) ==
    IF pc = "rle8_loop" THEN cur.buffer[cur.index + 2 + j]
    ELSE LET byte == cur.buffer[cur.index + 2 + (j + 1) \div 2]
         IN  IF j % 2 = 1 THEN byte \div 16 ELSE byte % 16

\* the step reads an absolute run whose literal bytes all lie inside the buffer, and
\* completes without a panic
AbsoluteRunStep ==
    /\ InRleLoop
    /\ OpWhole
    /\ OpFirst = 0
    /\ OpSecond >= 3
    /\ cur.index + 2 + LiteralBytes(OpSecond) <= cur.count
    /\ fault' = NoFault

(* C25: an absolute run (0, n >= 3) lying inside the buffer emits exactly  *)
(* n pixels, taken from the literal bytes in order, and moves the index    *)
(* past the opcode by n bytes (RLE8) or ceil(n/2) bytes (RLE4) plus one    *)
(* pad byte exactly when that count is odd; every opcode is read at an     *)
(* even offset of the buffer.                                              *)
C25_AbsoluteRun ==
    /\ [](InRleLoop => cur.index % 2 = 0)
    /\ [][AbsoluteRunStep =>
             /\ Len(NewCalls) = OpSecond
             /\ \A j \in DOMAIN NewCalls :
                   /\ NewCalls[j].op = "set_pixel"
                   /\ NewCalls[j].c = hdr.palette[LiteralIndex(j) + 1]
             /\ cur'.index = cur.index + 2 + LiteralBytes(OpSecond)
                                + (LiteralBytes(OpSecond) % 2)]_vars

\* an RLE8 absolute run of three pixels drawn from the start of the buffer: the next
\* opcode is read at offset 6, after the pad byte
C25_Witness ==
    /\ pc = "rle8_loop"
    /\ cur.count > 6
    /\ cur.buffer[1] = 0
    /\ cur.buffer[2] = 3
    /\ Len(PixelCalls) = 3
    /\ cur.index = 6
    /\ cur.index < cur.count

----------------------------------------------------------------------------
\* a set_pixel call inside the image
InsideImage(e) == e.x >= 0 /\ e.x < hdr.width /\ e.y >= 0 /\ e.y < hdr.height

(* C26: a 4 x 1 RLE4 image whose stream is the absolute run (0,5), three   *)
(* packed bytes and a pad byte is decoded with exactly 4 set_pixel calls,  *)
(* the high then the low nibble of each byte in turn, none of them outside *)
(* the image.                                                              *)
C26_RunClippedToImage ==
    (in \in NibbleRunInputs /\ pc \in {"build", "done"} /\ sink # <<>>) =>
        /\ Len(PixelCalls) = 4
        /\ \A i \in DOMAIN PixelCalls :
              /\ InsideImage(PixelCalls[i])
              /\ PixelCalls[i].c =
                    hdr.palette[(IF i % 2 = 1 THEN in.rest[2 + (i + 1) \div 2] \div 16
                                 ELSE in.rest[2 + (i + 1) \div 2] % 16) + 1]

----------------------------------------------------------------------------
\* the row the RLE cursor starts on
RleFirstRow == IF hdr.bottom_up THEN hdr.height - 1 ELSE 0

\* the step reads the escape (0, second)
EscapeStep(second) == InRleLoop /\ OpWhole /\ OpFirst = 0 /\ OpSecond = second

\* the step reads a run, encoded or absolute
RunStep == InRleLoop /\ OpWhole /\ (OpFirst > 0 \/ OpSecond >= 3)

(* C27: the RLE cursor starts at x = 0 on row 0 (top-down) or height - 1   *)
(* (bottom-up) and steps by +1 or -1; end-of-line sets x = 0 and           *)
(* y = y + step; a delta with bytes (dx, dy) sets x = x + dx and           *)
(* y = y + step * dy; neither draws; end-of-bitmap leaves y alone, and a   *)
(* run changes y only by the wrap at x >= width.                           *)
C27_CursorMoves ==
    [][/\ (pc \in {"rle8", "rle4"} /\ pc' \in {"rle8_loop", "rle4_loop"}) =>
             cur'.x = 0 /\ cur'.y = RleFirstRow /\ cur'.index = 0
       /\ EscapeStep(0) =>
             cur'.x = 0 /\ cur'.y = cur.y + RleStep /\ sink' = sink
       /\ EscapeStep(1) =>
             cur'.x = cur.x /\ cur'.y = cur.y /\ sink' = sink
       /\ (EscapeStep(2) /\ fault' = NoFault) =>
             /\ cur'.x = cur.x + cur.buffer[cur.index + 3]
             /\ cur'.y = cur.y + RleStep * cur.buffer[cur.index + 4]
             /\ sink' = sink
       /\ RunStep =>
             /\ \A j \in DOMAIN NewCalls :
                   <<NewCalls[j].x, NewCalls[j].y>> =
                      IF j = 1 THEN Landing(cur.x, cur.y)
                      ELSE Landing(NewCalls[j - 1].x + 1, NewCalls[j - 1].y)
             /\ (fault' = NoFault /\ NewCalls # <<>>) =>
                   cur'.y = NewCalls[Len(NewCalls)].y]_vars

\* a delta (1, 1) read as the first opcode of a bottom-up image: the cursor has moved
\* one column right and one row up, and nothing is drawn
C27_Witness ==
    /\ pc \in {"rle8_loop", "rle4_loop"}
    /\ hdr.bottom_up
    /\ cur.count >= 4
    /\ cur.buffer[1] = 0
    /\ cur.buffer[2] = 2
    /\ cur.index = 4
    /\ cur.x = 1
    /\ cur.y = RleFirstRow - 1
    /\ PixelCalls = <<>>

----------------------------------------------------------------------------
\* decode of RLE-compressed sources alone (those with a full palette, and those whose
\* declared length is not the stream's).  decode is a sequential function: it keeps
\* taking its next step until it returns, hence the fairness condition.
RleSources ==
    { i \in RleInputs : i.usedColors = 0 /\ i.wfield = MaxDim }
        \cup RleLengthInputs \cup NibbleRunInputs

InitRle == Init /\ in \in RleSources

NextRle ==
    \/ ReadFileHeader
    \/ ReadVersion
    \/ ParseCore
    \/ ParseInfo
    \/ ReadBitmask
    \/ ReadPalette
    \/ SetSize
    \/ Rle8Start
    \/ Rle8Step
    \/ Rle4Start
    \/ Rle4Step
    \/ Build

SpecRle == InitRle /\ [][NextRle]_vars /\ WF_vars(NextRle)

RleLoops == {"rle8_loop", "rle4_loop"}

(* C28: the RLE loops terminate for every buffer of length                 *)
(* imageDataSize > 0: a round that does not panic adds at least 2 to the   *)
(* index, the loop is left for build at once when the index is >=          *)
(* imageDataSize or an end-of-bitmap escape has been read, and for no      *)
(* other reason, so decode always gets out of the loop.                    *)
C28_RleTerminates ==
    /\ [][(pc \in RleLoops /\ cur.index >= cur.count) => pc' = "build"]_vars
    /\ [][InRleLoop =>
             \/ fault' # NoFault /\ pc' = "done"
             \/ /\ fault' = NoFault
                /\ cur'.index >= cur.index + 2
                /\ pc' = IF cur'.eob THEN "build" ELSE pc]_vars
    /\ (pc \in RleLoops) ~> (pc \in {"build", "done"})

\* the loop left at the end of a stream of two opcodes that holds no end-of-bitmap
\* escape
C28_Witness ==
    /\ pc = "build"
    /\ OnRle
    /\ ~cur.eob
    /\ cur.index >= cur.count
    /\ cur.count = 4
    /\ fault = NoFault

----------------------------------------------------------------------------
(* C29: every set_pixel call of the RLE8 / RLE4 machine has x < width and  *)
(* y < height: the cursor row, read as a u32, never wraps below 0 on a     *)
(* bottom-up image and never passes height - 1 on a top-down one.          *)
C29_RlePixelsInside ==
    OnRle => \A i \in DOMAIN PixelCalls : InsideImage(PixelCalls[i])

----------------------------------------------------------------------------
\* decode has computed the scanline length and gone on
SizeComputed == pc \in {"raster", "rle8", "rle4", "rle8_loop", "rle4_loop", "build"}

(* C30: for every width and bit depth the header parser accepts, the       *)
(* scanline length decode computes in u32 is the stride                    *)
(* ceil(width * bpp / 32) * 4: width * bpp + 31 never overflows, neither   *)
(* by wrapping nor by an overflow panic.                                   *)
C30_StrideExact ==
    /\ result # Panic("attempt to multiply with overflow")
    /\ SizeComputed => cur.size = Stride(hdr.width, hdr.bpp)

====
